---- MODULE Spec2Model ----
(***************************************************************************)
(* Model of the FileService client of example.py: an object that owns one  *)
(* aiohttp.ClientSession handle, opens it in __aenter__, closes it in      *)
(* __aexit__, and issues two kinds of GET request through it               *)
(* (get_directory, get_file_content).                                      *)
(*                                                                         *)
(* Python values are represented as follows.                               *)
(*   - A dict is a record; a key that the dict lacks is a field that the   *)
(*     record lacks ("error" \in DOMAIN data).                             *)
(*   - An Optional value is a sequence of length at most one: <<>> is      *)
(*     None, <<v>> is the value v.                                         *)
(*   - An exception message built by an f-string is the pair               *)
(*     <<literal prefix, formatted value>>.                                *)
(*   - self.session is None (0) or the index, in `sessions`, of the        *)
(*     aiohttp.ClientSession object the field refers to.                   *)
(***************************************************************************)
EXTENDS Integers, Sequences, FiniteSets, TLC

VARIABLES
    session,    \* FileService.session: None or a reference to a ClientSession
    sessions,   \* every ClientSession object created so far, by reference
    last,       \* the most recent call on the client and what it did
    caller,     \* which `async with` block drives the client ("none": no block)
    pc,         \* position of that block ("free" when there is none)
    exc         \* exception propagating out of that block, if any

vars == <<session, sessions, last, caller, pc, exc>>

----------------------------------------------------------------------------
(* Bounds of the model.                                                    *)

MaxSessions == 2
MaxCloseCalls == 2
MaxItems == 2

----------------------------------------------------------------------------
(* Values.                                                                 *)

None == 0

base_url == "http://localhost:3001/api"

\* class FileType(Enum): the constructor FileType(value) looks the member up
\* by value.
FileType == [file |-> "FILE", directory |-> "DIRECTORY"]

\* dict.get(key): the value, or None.
DictGet(d, key) == IF key \in DOMAIN d THEN <<d[key]>> ELSE <<>>

\* dict.get(key, default).
DictGetDefault(d, key, default) == IF key \in DOMAIN d THEN d[key] ELSE default

\* Truth value of an Optional[bool], as `if x` / `not x` compute it.
Truthy(opt) == opt # <<>> /\ opt[1] = TRUE

\* Truth value of an Optional[str]: None and "" are false.
TruthyStr(opt) == opt # <<>> /\ opt[1] # ""

\* str() of an Optional[str] inside an f-string: None formats as "None".
Format(opt) == IF opt = <<>> THEN "None" ELSE opt[1]

\* str.replace("Z", "+00:00") on the timestamps the server sends.
ReplaceZ(s) ==
    CASE s = "2024-01-01T00:00:00Z" -> "2024-01-01T00:00:00+00:00"
      [] s = "2024-01-01T00:00:00+00:00" -> "2024-01-01T00:00:00+00:00"

\* datetime.fromisoformat: the instant, in seconds since the epoch.
fromisoformat(s) ==
    CASE s = "2024-01-01T00:00:00+00:00" -> 1704067200

\* str.lower() on the names the server sends.
Lower(s) == IF s = "README.md" THEN "readme.md" ELSE s

----------------------------------------------------------------------------
(* What the server can answer.                                             *)

\* Items of a directory listing, in the shape of the listing endpoint.
ItemData ==
    { [name |-> "README.md", path |-> "/example/README.md", type |-> "file",
       size |-> 2048, modified |-> "2024-01-01T00:00:00Z", extension |-> "md"],
      [name |-> "notes", path |-> "/example/notes", type |-> "file"],
      [name |-> "docs", path |-> "/example/docs", type |-> "directory",
       size |-> 4096],
      [name |-> "src", path |-> "/example/src", type |-> "directory"] }

ItemLists == UNION { [1..n -> ItemData] : n \in 0..MaxItems }

\* Payloads that do not report success: flag false or missing, with or
\* without an error message.
ErrorPayloads ==
    { [success |-> FALSE, error |-> "boom"],
      [success |-> FALSE],
      [error |-> "boom"],
      [data |-> [items |-> <<>>]] }

DirectoryPayloads ==
    { [success |-> TRUE, data |-> [items |-> l]] : l \in ItemLists }
        \cup ErrorPayloads

FileContentPayloads ==
    { [success |-> TRUE, data |-> [content |-> "# ProjectDuck"]] }
        \cup ErrorPayloads

StatusCodes == {200, 404}

\* What awaiting the request can end in, besides an HTTP response: the
\* connection fails, or the awaiting task is cancelled.
TransportFailures == { [kind |-> "connect_error"], [kind |-> "cancelled"] }

HttpResponses(payloads) ==
    { [kind |-> "http", status |-> st, body |-> b] :
        st \in StatusCodes, b \in payloads }

DirectoryResponses == HttpResponses(DirectoryPayloads) \cup TransportFailures

FileContentResponses == HttpResponses(FileContentPayloads) \cup TransportFailures

Paths == {"", "/example"}

----------------------------------------------------------------------------
(* Outcomes of a call.                                                     *)

NoOutcome ==
    [kind |-> "none", exc |-> "", msg |-> <<"", "">>, status |-> <<>>,
     items |-> <<>>, content |-> <<>>, printed |-> FALSE]

Raise(cls, msg) == [NoOutcome EXCEPT !.kind = "raise", !.exc = cls, !.msg = msg]

ReturnItems(items) == [NoOutcome EXCEPT !.kind = "return", !.items = items]

ReturnContent(s) == [NoOutcome EXCEPT !.kind = "return", !.content = <<s>>]

\* The record of a call: the operation and its argument, the arguments of
\* session.get if the call got that far, the request that went out on the
\* network if one did, the server's answer, and the outcome.
Call(op, path, get, request, resp, outcome) ==
    [op |-> op, path |-> path, get |-> get, request |-> request,
     resp |-> resp, outcome |-> outcome]

NoCall == Call("none", "", <<>>, <<>>, <<>>, NoOutcome)

----------------------------------------------------------------------------
(* The transport (aiohttp.ClientSession), as FileService uses it.          *)

NewSession == [closed |-> FALSE, closeCalls |-> 0]

\* ClientSession.close(): closing a closed session changes nothing but is
\* still a call on the session.
SessionClose(s) == [closed |-> TRUE, closeCalls |-> s.closeCalls + 1]

\* raise_for_status(): statuses of 400 and above raise.
StatusOk(status) == status < 400

\* The RuntimeError a closed ClientSession raises from get(), before
\* anything is sent; nothing but that check stands between get() and the
\* network.
SessionGet(s, ss, url, params) ==
    IF s = None
    THEN [get |-> <<>>, request |-> <<>>,
          error |-> <<Raise("AttributeError",
                            <<"'NoneType' object has no attribute 'get'", "">>)>>]
    ELSE LET args == [session |-> s, url |-> url, params |-> params]
         IN IF ss[s].closed
            THEN [get |-> <<args>>, request |-> <<>>,
                  error |-> <<Raise("RuntimeError", <<"Session is closed", "">>)>>]
            ELSE [get |-> <<args>>, request |-> <<args>>, error |-> <<>>]

----------------------------------------------------------------------------
(* FileService.                                                            *)

\* The guard left out: the call goes on to self.session.get.
SessionMissing_never(s) == FALSE

\* `not self.session`
SessionMissing(s) == s = None

\* The parameter sent whatever the path.
DirectoryParams_always(path) == {<<"path", path>>}

\* params = {"path": path} if path else {}
DirectoryParams(path) == IF path # "" THEN {<<"path", path>>} ELSE {}

\* params = {"path": file_path}
FileContentParams(file_path) == {<<"path", file_path>>}

\* One iteration of the loop of get_directory: the FileItem of an item.
BuildItem(item_data) ==
    [name |-> item_data.name,
     path |-> item_data.path,
     type |-> FileType[item_data.type],
     size |-> DictGet(item_data, "size"),
     modified |->
        IF TruthyStr(DictGet(item_data, "modified"))
        THEN <<fromisoformat(ReplaceZ(item_data.modified))>>
        ELSE <<>>,
     extension |-> DictGet(item_data, "extension")]

\* The loop inserting at the front instead of appending.
RECURSIVE BuildItems_prepend(_)
BuildItems_prepend(item_list) ==
    IF item_list = <<>>
    THEN <<>>
    ELSE LET n == Len(item_list)
         IN <<BuildItem(item_list[n])>> \o BuildItems_prepend(SubSeq(item_list, 1, n - 1))

\* The loop of get_directory: `items` after the loop has run over item_list.
RECURSIVE BuildItems(_)
BuildItems(item_list) ==
    IF item_list = <<>>
    THEN <<>>
    ELSE LET n == Len(item_list)
         IN Append(BuildItems(SubSeq(item_list, 1, n - 1)), BuildItem(item_list[n]))

\* The payload's success flag read before the status is checked.
DirectoryResult_payload_first(resp) ==
    CASE resp.kind = "connect_error" ->
            [Raise("ClientConnectorError", <<"Cannot connect to host", "">>)
                EXCEPT !.printed = TRUE]
      [] resp.kind = "cancelled" ->
            Raise("CancelledError", <<"", "">>)
      [] resp.kind = "http" ->
            IF ~Truthy(DictGet(resp.body, "success"))
            THEN Raise("ValueError",
                       <<"API Error: ",
                         DictGetDefault(resp.body, "error", "Unknown error")>>)
            ELSE IF ~StatusOk(resp.status)
            THEN [Raise("ClientResponseError", <<"", "">>)
                    EXCEPT !.status = <<resp.status>>, !.printed = TRUE]
            ELSE ReturnItems(BuildItems(resp.body.data.items))

\* What get_directory makes of the answer to its request: the body of its
\* `async with` block and its except clause.
DirectoryResult(resp) ==
    CASE resp.kind = "connect_error" ->
            [Raise("ClientConnectorError", <<"Cannot connect to host", "">>)
                EXCEPT !.printed = TRUE]
      [] resp.kind = "cancelled" ->
            Raise("CancelledError", <<"", "">>)
      [] resp.kind = "http" ->
            IF ~StatusOk(resp.status)
            THEN [Raise("ClientResponseError", <<"", "">>)
                    EXCEPT !.status = <<resp.status>>, !.printed = TRUE]
            ELSE IF ~Truthy(DictGet(resp.body, "success"))
            THEN Raise("ValueError",
                       <<"API Error: ",
                         DictGetDefault(resp.body, "error", "Unknown error")>>)
            ELSE ReturnItems(BuildItems(resp.body.data.items))

\* What get_file_content makes of the answer to its request.
FileContentResult(resp) ==
    CASE resp.kind = "connect_error" ->
            Raise("ClientConnectorError", <<"Cannot connect to host", "">>)
      [] resp.kind = "cancelled" ->
            Raise("CancelledError", <<"", "">>)
      [] resp.kind = "http" ->
            IF ~StatusOk(resp.status)
            THEN [Raise("ClientResponseError", <<"", "">>)
                    EXCEPT !.status = <<resp.status>>]
            ELSE IF Truthy(DictGet(resp.body, "success"))
            THEN ReturnContent(resp.body.data.content)
            ELSE Raise("ValueError",
                       <<"Failed to get file content: ",
                         Format(DictGet(resp.body, "error"))>>)

\* FileService.get_directory(path), the server answering resp if asked.
get_directory(s, ss, path, resp) ==
    IF SessionMissing(s)
    THEN Call("get_directory", path, <<>>, <<>>, <<>>,
              Raise("RuntimeError",
                    <<"Session not initialized. Use async context manager.", "">>))
    ELSE LET sent == SessionGet(s, ss, <<base_url, "/directory">>,
                                DirectoryParams(path))
         IN IF sent.error # <<>>
            THEN Call("get_directory", path, sent.get, sent.request, <<>>,
                      sent.error[1])
            ELSE Call("get_directory", path, sent.get, sent.request, <<resp>>,
                      DirectoryResult(resp))

\* FileService.get_file_content(file_path), the server answering resp if asked.
get_file_content(s, ss, file_path, resp) ==
    IF SessionMissing(s)
    THEN Call("get_file_content", file_path, <<>>, <<>>, <<>>,
              Raise("RuntimeError", <<"Session not initialized", "">>))
    ELSE LET sent == SessionGet(s, ss, <<base_url, "/file/content">>,
                                FileContentParams(file_path))
         IN IF sent.error # <<>>
            THEN Call("get_file_content", file_path, sent.get, sent.request,
                      <<>>, sent.error[1])
            ELSE Call("get_file_content", file_path, sent.get, sent.request,
                      <<resp>>, FileContentResult(resp))

\* __aexit__ returning without closing.
CloseOnExit_skip(s, ss) == ss

\* The sessions after FileService.__aexit__ ran on a client whose field is s.
CloseOnExit(s, ss) ==
    IF s # None THEN [ss EXCEPT ![s] = SessionClose(@)] ELSE ss

\* FileService.__aenter__: a new ClientSession, stored in self.session.
aenter ==
    /\ Len(sessions) < MaxSessions
    /\ sessions' = Append(sessions, NewSession)
    /\ session' = Len(sessions) + 1
    /\ last' = [NoCall EXCEPT !.op = "__aenter__"]

\* FileService.__aexit__: closes self.session if the field is set; the
\* field is left as it is.
aexit ==
    /\ session # None => sessions[session].closeCalls < MaxCloseCalls
    /\ sessions' = CloseOnExit(session, sessions)
    /\ session' = session
    /\ last' = [NoCall EXCEPT !.op = "__aexit__"]

----------------------------------------------------------------------------
(* A client driven call by call, in any order.                             *)

Acquire == pc = "free" /\ aenter /\ UNCHANGED <<caller, pc, exc>>

Release == pc = "free" /\ aexit /\ UNCHANGED <<caller, pc, exc>>

GetDirectory ==
    /\ pc = "free"
    /\ \E path \in Paths, resp \in DirectoryResponses :
          last' = get_directory(session, sessions, path, resp)
    /\ UNCHANGED <<session, sessions, caller, pc, exc>>

GetFileContent ==
    /\ pc = "free"
    /\ \E path \in Paths, resp \in FileContentResponses :
          last' = get_file_content(session, sessions, path, resp)
    /\ UNCHANGED <<session, sessions, caller, pc, exc>>

Init ==
    /\ session = None
    /\ sessions = <<>>
    /\ last = NoCall
    /\ caller = "none"
    /\ pc = "free"
    /\ exc = <<>>

Next == Acquire \/ Release \/ GetDirectory \/ GetFileContent

Spec == Init /\ [][Next]_vars

----------------------------------------------------------------------------
(* A client driven by an `async with FileService() as ...:` block: main,   *)
(* whose body is wrapped in try/except Exception, and                      *)
(* load_and_process_files, whose body is not.  The block calls __aenter__  *)
(* on entry and __aexit__ on every way out of its body; __aexit__ returns  *)
(* None, so an exception that left the body goes on propagating.           *)

Callers == {"main", "load_and_process_files"}

\* `except Exception` catches everything here but CancelledError, which
\* derives from BaseException.
IsException(cls) == cls # "CancelledError"

\* regular_files filtered by f.name.lower() == "readme.md"
readme_files(files) ==
    SelectSeq(files, LAMBDA f : f.type = FileType.file /\ Lower(f.name) = "readme.md")

ScopeEnter ==
    /\ pc = "start"
    /\ aenter
    /\ pc' = "get_directory"
    /\ UNCHANGED <<caller, exc>>

\* await get_directory("/example") in the body of either block.
ScopeGetDirectory ==
    /\ pc = "get_directory"
    /\ \E resp \in DirectoryResponses :
          LET c == get_directory(session, sessions, "/example", resp)
          IN /\ last' = c
             /\ IF c.outcome.kind = "raise"
                THEN /\ pc' = "exit"
                     /\ exc' = IF caller = "main" /\ IsException(c.outcome.exc)
                               THEN <<>>
                               ELSE <<c.outcome.exc>>
                ELSE /\ pc' = IF caller = "main" /\ readme_files(c.outcome.items) # <<>>
                              THEN "get_file_content"
                              ELSE "exit"
                     /\ exc' = <<>>
    /\ UNCHANGED <<session, sessions, caller>>

\* await get_file_content(readme_files[0].path) in the body of main.
ScopeGetFileContent ==
    /\ pc = "get_file_content"
    /\ \E resp \in FileContentResponses :
          LET c == get_file_content(session, sessions,
                                    readme_files(last.outcome.items)[1].path, resp)
          IN /\ last' = c
             /\ pc' = "exit"
             /\ exc' = IF c.outcome.kind = "raise" /\ ~IsException(c.outcome.exc)
                       THEN <<c.outcome.exc>>
                       ELSE <<>>
    /\ UNCHANGED <<session, sessions, caller>>

ScopeExit ==
    /\ pc = "exit"
    /\ aexit
    /\ pc' = "done"
    /\ UNCHANGED <<caller, exc>>

ScopedInit ==
    /\ session = None
    /\ sessions = <<>>
    /\ last = NoCall
    /\ caller \in Callers
    /\ pc = "start"
    /\ exc = <<>>

ScopedNext == ScopeEnter \/ ScopeGetDirectory \/ ScopeGetFileContent \/ ScopeExit

ScopedSpec == ScopedInit /\ [][ScopedNext]_vars

----------------------------------------------------------------------------
(* The error taxonomy, in terms of what the code raises.                   *)

Requests == {"get_directory", "get_file_content"}

\* StateError: the RuntimeError the client itself raises when it finds no
\* session.
IsStateError(o) ==
    /\ o.kind = "raise"
    /\ o.exc = "RuntimeError"
    /\ o.msg[1] \in {"Session not initialized. Use async context manager.",
                     "Session not initialized"}

\* TransportError carrying a status code.
IsTransportError(o, status) ==
    o.kind = "raise" /\ o.exc = "ClientResponseError" /\ o.status = <<status>>

\* ApiError.
IsApiError(o) == o.kind = "raise" /\ o.exc = "ValueError"

\* The session of the client is open.
SessionOpen == session # None /\ ~sessions[session].closed

\* The last call got a transport-success response.
TransportSuccess ==
    /\ last.resp # <<>>
    /\ last.resp[1].kind = "http"
    /\ StatusOk(last.resp[1].status)

----------------------------------------------------------------------------
(* Properties.                                                             *)

\* C1: on a client for which no __aenter__ has run, get_directory and
\* get_file_content fail with StateError, whatever the path, without
\* calling session.get and without a request going out.
C1_StateErrorBeforeOpen ==
    (last.op \in Requests /\ sessions = <<>>) =>
        /\ IsStateError(last.outcome)
        /\ last.get = <<>>
        /\ last.request = <<>>

C1_Witness ==
    /\ last.op = "get_file_content"
    /\ last.path = "/example"
    /\ sessions = <<>>
    /\ last.outcome.kind = "raise"

\* C2: when the `async with` block has been left, by its body running to
\* its end, by an error raised in it or by cancellation, the session that
\* __aenter__ opened is closed.
C2_ScopeReleasesSession ==
    pc = "done" =>
        /\ sessions # <<>>
        /\ \A i \in DOMAIN sessions : sessions[i].closed

C2_Witness ==
    /\ pc = "done"
    /\ exc = <<"CancelledError">>
    /\ sessions[1].closed

C4_DirectorySizeAbsent ==
    (last.op = "get_directory" /\ last.outcome.kind = "return") =>
        \A i \in DOMAIN last.outcome.items :
            last.resp[1].body.data.items[i].type = "directory" =>
                /\ last.outcome.items[i].type = FileType.directory
                /\ last.outcome.items[i].size = <<>>

\* C5: get_directory returns one entry per payload item, in the payload's
\* order: the i-th entry has the name, path and type of the i-th item, and
\* the size of a file item that has one.
C5_ServerOrder ==
    (last.op = "get_directory" /\ last.outcome.kind = "return") =>
        LET payload == last.resp[1].body.data.items
            entries == last.outcome.items
        IN /\ Len(entries) = Len(payload)
           /\ \A i \in DOMAIN payload :
                /\ entries[i].name = payload[i].name
                /\ entries[i].path = payload[i].path
                /\ entries[i].type = FileType[payload[i].type]
                /\ (payload[i].type = "file" /\ "size" \in DOMAIN payload[i]) =>
                        entries[i].size = <<payload[i].size>>

C5_Witness ==
    /\ last.op = "get_directory"
    /\ last.outcome.kind = "return"
    /\ Len(last.outcome.items) = 2
    /\ last.outcome.items[1].type = FileType.file
    /\ last.outcome.items[1].size = <<2048>>
    /\ last.outcome.items[2].type = FileType.directory

\* C6: __aexit__ on a client whose session was never opened, or whose
\* session an earlier __aexit__ closed, changes neither the client nor any
\* session: in particular it makes no further close call.
C6_ReleaseIdempotent ==
    [][(last'.op = "__aexit__" /\ ~SessionOpen) =>
            (session' = session /\ sessions' = sessions)]_vars

\* C7: get_directory and get_file_content fail with StateError whenever
\* the client's session is not open, also after __aexit__ closed it, and
\* then make no call on the session and send nothing.
C7_StateErrorUnlessOpen ==
    (last.op \in Requests /\ ~SessionOpen) =>
        /\ IsStateError(last.outcome)
        /\ last.get = <<>>
        /\ last.request = <<>>

\* C8: over any sequence of __aenter__ and __aexit__ on one client, no
\* session receives two close calls, and after an __aexit__ every session
\* opened so far has been closed.
C8_EachSessionClosedOnce ==
    /\ \A i \in DOMAIN sessions : sessions[i].closeCalls <= 1
    /\ last.op = "__aexit__" =>
            \A i \in DOMAIN sessions : sessions[i].closeCalls = 1

\* C9: a response with a non-success status makes get_directory and
\* get_file_content raise TransportError carrying that status, whatever
\* its body; ApiError and a normal return follow a transport-success
\* response only.
C9_StatusBeforePayload ==
    last.op \in Requests =>
        /\ (last.resp # <<>> /\ last.resp[1].kind = "http"
                /\ ~StatusOk(last.resp[1].status)) =>
                IsTransportError(last.outcome, last.resp[1].status)
        /\ (IsApiError(last.outcome) \/ last.outcome.kind = "return") =>
                TransportSuccess

C9_Witness ==
    /\ last.op = "get_directory"
    /\ last.resp # <<>>
    /\ last.resp[1].kind = "http"
    /\ last.resp[1].status = 404
    /\ "success" \in DOMAIN last.resp[1].body
    /\ last.resp[1].body.success = FALSE
    /\ IsTransportError(last.outcome, 404)

\* C10: the request get_directory sends has a `path` parameter, equal to
\* the argument, exactly when the argument is not empty; the request
\* get_file_content sends always has `path` equal to the argument.
C10_PathParameter ==
    (last.op \in Requests /\ last.request # <<>>) =>
        LET params == last.request[1].params
            hasPath == \E kv \in params : kv[1] = "path"
        IN /\ \A kv \in params : kv = <<"path", last.path>>
           /\ last.op = "get_directory" => (hasPath <=> last.path # "")
           /\ last.op = "get_file_content" => hasPath

C10_Witness ==
    /\ last.op = "get_directory"
    /\ last.path = ""
    /\ last.request # <<>>
    /\ last.request[1].params = {}
====
